---- MODULE Spec2Model ----
(***************************************************************************)
(* Capture-session orchestration, frame stitching and tile-pyramid         *)
(* generation of backend/app/services/frame_processor.py.                  *)
(*                                                                         *)
(* Conventions:                                                            *)
(*   - an image is a non-empty sequence of rows, a row a non-empty         *)
(*     sequence of pixel values 0..255 (one channel stands for the three   *)
(*     BGR channels, which the code always treats alike); row y of the     *)
(*     code (0-based) is element y+1 here;                                 *)
(*   - the bytes of a file are a record [img, enc]: the picture a decoder  *)
(*     reads from them and the encoder that produced them, so that a copy  *)
(*     and a decode/re-encode of the same picture are different bytes;     *)
(*   - a path storage/frames/<sid>/frame_<n>.png is the pair <<sid, n>>.   *)
(*                                                                         *)
(* Specifications:                                                         *)
(*   Spec           the service: create_session, add_frame and             *)
(*                  complete_session on the shared registry and storage;   *)
(*   OverlapSpec    find_overlap applied to two frames cut from one page;  *)
(*   StitchSpec     stitch_frames applied to lists of frames of several    *)
(*                  heights and widths;                                    *)
(*   TileSpec       generate_tiles, one file operation at a time;          *)
(*   TileFaultSpec  the same on a file system whose operations can fail;   *)
(*   LoopSpec       the requests as the event loop takes them up.          *)
(* The last five keep their state in probe and leave the service alone.    *)
(***************************************************************************)
EXTENDS Integers, Sequences, FiniteSets, TLC

(***************************************************************************)
(* Bounds of the model.                                                    *)
(***************************************************************************)
\* size of the identifier space str(uuid4())[:8] is drawn from (16^8 in the code)
NumSessionIds == 2
\* add_frame calls in a run
MaxAdds == 2
\* frame numbers the client supplies are 1..MaxFrameNumber
MaxFrameNumber == 2
\* CaptureSession objects constructed in a run
MaxSessions == 2
\* height in rows of the client's frames
FrameHeight == 4
\* rows above which stitch_frames takes the chunked path (30000 in the code)
LargeThreshold == 30
\* rows per chunk in _stitch_large (10000 in the code)
ChunkHeight == 10
\* frames in a list given to stitch_frames on its own
MaxStitchFrames == 3
\* heights in rows of the frames of such a list
ShortFrame == 4
TallFrame == 27
\* their widths are 1..MaxFrameWidth
MaxFrameWidth == 2
\* heights in rows of the two frames given to find_overlap on its own
MaxHeight == 20
\* widths and heights of the images given to generate_tiles on its own
MaxTileDim == 5
\* the tile sizes of that TileGenerator (256 in the code): one that the
\* images exceed and one that exceeds the images
SmallTile == 2
LargeTile == 8
\* failures of the file system in one run of generate_tiles
MaxFaults == 1
\* requests the clients send to the event loop in a run
MaxRequests == 3
\* analyze requests of one user that are in flight together
MaxAnalyses == 3
\* values of monthly_analyses_limit of that user
MaxLimit == 2
\* users with a row in the subscriptions table, known by their e-mail
NumUsers == 2
\* subscription ids Polar hands out
NumPolarIds == 2

(***************************************************************************)
(* Program constants.                                                      *)
(***************************************************************************)
tile_size == 256
overlap == 0

Min(a, b) == IF a < b THEN a ELSE b
Max(a, b) == IF a > b THEN a ELSE b

SessionIds == 1 .. NumSessionIds
FrameNumbers == 1 .. MaxFrameNumber
Metadatas == {"meta"}
EmptyMetadata == "{}"

(***************************************************************************)
(* Images and file contents.                                               *)
(***************************************************************************)
\* what cv2.imread returns for bytes it cannot decode
None == << >>

Height(img) == Len(img)
Width(img) == Len(img[1])

\* a frame of h rows and w columns whose row y has the value base + y
Gradient(h, w, base) == [y \in 1 .. h |-> [x \in 1 .. w |-> base + y]]

FrameImages == {Gradient(FrameHeight, 2, 10)}

\* base64 payloads that decode to a PNG, and one that decodes to other bytes
Garbage == [img |-> None, enc |-> "garbage"]
ClientBytes == {[img |-> i, enc |-> "client"] : i \in FrameImages} \cup {Garbage}

\* the frame_data dictionaries of add_frame
FrameData == [frame_number : FrameNumbers, image_base64 : ClientBytes]

load_image(bytes) == bytes.img
imwrite(img) == [img |-> img, enc |-> "cv2"]

FramePath(sid, frame_number) == <<sid, frame_number>>

(***************************************************************************)
(* FrameStitcher.find_overlap.  What ORB and the matcher find in the two   *)
(* search regions is the input est: est.matched is FALSE when a region has *)
(* no or fewer than 2 descriptors or fewer than 4 matches survive, and     *)
(* est.d is int(median of the matched y displacements) otherwise.          *)
(***************************************************************************)
\* the value standing for an exception leaving find_overlap
Raised == -1

NoMatch == [matched |-> FALSE, d |-> 0]

\* int(min(height1, height2) * 0.3)
overlap_region(height1, height2) == (Min(height1, height2) * 3) \div 10

\* int(height1 * 0.8)
fallback_offset(height1) == (height1 * 8) \div 10

\* the displacements the matcher can report: both keypoints lie in a region
\* of overlap_region rows, so the truncated median is within that many rows
EstOutcomes(height1, height2) ==
    {NoMatch} \cup
    {[matched |-> TRUE, d |-> d] :
        d \in (1 - overlap_region(height1, height2)) ..
              (overlap_region(height1, height2) - 1)}

\* a mutation of sanity_check: an estimate outside the band is moved to its
\* nearer end
clamp_to_band(stitch_y, height1) ==
    IF 2 * stitch_y < height1 THEN (height1 + 1) \div 2
    ELSE IF stitch_y > height1 THEN height1
    ELSE stitch_y

\* a mutation of sanity_check: the estimate is returned unchecked
no_sanity_check(stitch_y, height1) == stitch_y

\* the "Sanity check" of find_overlap
sanity_check(stitch_y, height1) ==
    IF 2 * stitch_y < height1 THEN fallback_offset(height1)
    ELSE IF stitch_y > height1 THEN height1
    ELSE stitch_y

\* the mutation of find_overlap: the displacement is subtracted
find_overlap_flipped(img1, img2, est) ==
    IF img2 = None THEN Raised
    ELSE LET height1 == Height(img1)
             height2 == Height(img2)
             region == overlap_region(height1, height2)
         IN  IF region = 0 THEN Raised
             ELSE IF ~est.matched THEN fallback_offset(height1)
             ELSE sanity_check(height1 - region - est.d, height1)

find_overlap(img1, img2, est) ==
    IF img2 = None THEN Raised
    ELSE LET height1 == Height(img1)
             height2 == Height(img2)
             region == overlap_region(height1, height2)
         IN  IF region = 0 THEN Raised
             ELSE IF ~est.matched THEN fallback_offset(height1)
             ELSE sanity_check(height1 - region + est.d, height1)

(***************************************************************************)
(* FrameStitcher.stitch_frames: the stitch plan.                           *)
(***************************************************************************)
\* the mutation of StitchPlan: the offset is stored as it is returned, not
\* added to the previous stitch point
RECURSIVE plan_of_offsets(_, _, _, _)
plan_of_offsets(images, est, i, stitch_points) ==
    IF i > Len(images)
    THEN [status |-> "ok", points |-> stitch_points, calls |-> Len(images) - 1]
    ELSE LET offset == find_overlap(images[i - 1], images[i], est[i - 1])
         IN  IF offset = Raised
             THEN [status |-> "error", points |-> stitch_points, calls |-> i - 1]
             ELSE plan_of_offsets(images, est, i + 1, Append(stitch_points, offset))

\* stitch_points = [0] and the loop over frames 1..n-1 that appends
\* current_height = stitch_points[-1] + offset
RECURSIVE StitchPlan(_, _, _, _)
StitchPlan(images, est, i, stitch_points) ==
    IF i > Len(images)
    THEN [status |-> "ok", points |-> stitch_points, calls |-> Len(images) - 1]
    ELSE LET offset == find_overlap(images[i - 1], images[i], est[i - 1])
         IN  IF offset = Raised
             THEN [status |-> "error", points |-> stitch_points, calls |-> i - 1]
             ELSE StitchPlan(images, est, i + 1,
                      Append(stitch_points, stitch_points[Len(stitch_points)] + offset))

\* the mutation of MaxWidth: the canvas is as wide as the first frame
first_width(images) == Width(images[1])

\* max(img.shape[1] for img in images)
MaxWidth(images) ==
    CHOOSE w \in {Width(images[i]) : i \in 1 .. Len(images)} :
        \A i \in 1 .. Len(images) : Width(images[i]) <= w

Zeros(h, w) == [y \in 1 .. h |-> [x \in 1 .. w |-> 0]]

(***************************************************************************)
(* The non-chunked composition.  alpha = k / d with k = y - overlap_start  *)
(* and d = overlap_end - overlap_start; astype(uint8) truncates.           *)
(***************************************************************************)
\* the mutation of Blend: the two weights change places
blend_reversed(canvas_px, img_px, k, d) == (canvas_px * k + img_px * (d - k)) \div d

Blend(canvas_px, img_px, k, d) == (canvas_px * (d - k) + img_px * k) \div d

\* one iteration of the "Place images" loop, for the i-th image (1-based)
PlaceImage(canvas, images, stitch_points, i, total_height) ==
    LET img == images[i]
        y_start == stitch_points[i]
        h == Height(img)
        w == Width(img)
        y_end == Min(y_start + h, total_height)
        prev_end == IF i > 1
                    THEN stitch_points[i - 1] + Height(images[i - 1])
                    ELSE y_start
        blending == i > 1 /\ y_start < prev_end
        non_overlap_start == Max(prev_end, y_start)
    IN  [yy \in 1 .. Len(canvas) |->
            LET y == yy - 1
                img_y == y - y_start
            IN  [x \in 1 .. Len(canvas[yy]) |->
                    IF x > w THEN canvas[yy][x]
                    ELSE IF blending /\ y >= y_start /\ y < Min(prev_end, y_end)
                            /\ img_y < h
                    THEN Blend(canvas[yy][x], img[img_y + 1][x],
                               y - y_start, prev_end - y_start)
                    ELSE IF y >= non_overlap_start /\ y < y_end /\ img_y < h
                    THEN img[img_y + 1][x]
                    ELSE canvas[yy][x]]]

RECURSIVE PlaceImages(_, _, _, _, _)
PlaceImages(canvas, images, stitch_points, i, total_height) ==
    IF i > Len(images) THEN canvas
    ELSE PlaceImages(PlaceImage(canvas, images, stitch_points, i, total_height),
                     images, stitch_points, i + 1, total_height)

Compose(images, stitch_points, width, total_height) ==
    PlaceImages(Zeros(total_height, width), images, stitch_points, 1, total_height)

(***************************************************************************)
(* FrameStitcher._stitch_large.                                            *)
(***************************************************************************)
\* the slice assignment chunk[dst_start:dst_end, :w] = img[src_start:src_end, :]
PasteIntoChunk(chunk, img, y_start, chunk_start, chunk_end) ==
    LET img_end == y_start + Height(img)
    IN  IF img_end <= chunk_start \/ y_start >= chunk_end THEN chunk
        ELSE LET src_start == Max(0, chunk_start - y_start)
                 src_end == Min(Height(img), chunk_end - y_start)
                 dst_start == Max(0, y_start - chunk_start)
                 dst_end == dst_start + (src_end - src_start)
             IN  [r \in 1 .. Len(chunk) |->
                     [x \in 1 .. Len(chunk[r]) |->
                         IF r - 1 >= dst_start /\ r - 1 < dst_end /\ x <= Width(img)
                         THEN img[src_start + (r - 1 - dst_start) + 1][x]
                         ELSE chunk[r][x]]]

RECURSIVE PasteImages(_, _, _, _, _, _)
PasteImages(chunk, images, stitch_points, i, chunk_start, chunk_end) ==
    IF i > Len(images) THEN chunk
    ELSE PasteImages(
             PasteIntoChunk(chunk, images[i], stitch_points[i], chunk_start, chunk_end),
             images, stitch_points, i + 1, chunk_start, chunk_end)

RECURSIVE Chunks(_, _, _, _, _)
Chunks(images, stitch_points, width, height, chunk_start) ==
    IF chunk_start >= height THEN << >>
    ELSE LET chunk_end == Min(chunk_start + ChunkHeight, height)
         IN  PasteImages(Zeros(chunk_end - chunk_start, width), images,
                         stitch_points, 1, chunk_start, chunk_end)
             \o Chunks(images, stitch_points, width, height,
                       chunk_start + ChunkHeight)

_stitch_large(images, stitch_points, width, height) ==
    Chunks(images, stitch_points, width, height, 0)

(***************************************************************************)
(* FrameStitcher.stitch_frames.  frame_bytes are the contents of the files *)
(* at frame_paths; the result tells whether output_path was written, with  *)
(* what, the stitch plan, how often find_overlap was entered and which     *)
(* branch produced the output.                                             *)
(***************************************************************************)
NoBytes == [img |-> None, enc |-> "none"]

\* the mutation of StitchError: output_path is created, as a blank image,
\* before the exception leaves stitch_frames
stitch_error_after_write(stitch_points, calls) ==
    [status |-> "error", written |-> TRUE, out |-> imwrite(Zeros(1, 1)),
     points |-> stitch_points, calls |-> calls, path |-> "none"]

\* an exception leaves stitch_frames before output_path is written
StitchError(stitch_points, calls) ==
    [status |-> "error", written |-> FALSE, out |-> NoBytes,
     points |-> stitch_points, calls |-> calls, path |-> "none"]

\* the mutation of copy_file: decode the frame and encode it again
reencode_file(bytes) == imwrite(load_image(bytes))

\* shutil.copy(frame_paths[0], output_path)
copy_file(bytes) == bytes

stitch_frames(frame_bytes, est) ==
    IF Len(frame_bytes) = 0 THEN StitchError(<< >>, 0)
    ELSE IF Len(frame_bytes) = 1
    THEN [status |-> "ok", written |-> TRUE, out |-> copy_file(frame_bytes[1]),
          points |-> << >>, calls |-> 0, path |-> "copy"]
    ELSE LET images == [i \in 1 .. Len(frame_bytes) |-> load_image(frame_bytes[i])]
         IN  IF images[1] = None THEN StitchError(<<0>>, 0)
             ELSE LET plan == StitchPlan(images, est, 2, <<0>>)
                      width == MaxWidth(images)
                      total_height == plan.points[Len(images)]
                                      + Height(images[Len(images)])
                  IN  IF plan.status = "error"
                      THEN StitchError(plan.points, plan.calls)
                      ELSE IF total_height > LargeThreshold
                      THEN [status |-> "ok", written |-> TRUE,
                            out |-> imwrite(_stitch_large(images, plan.points,
                                                          width, total_height)),
                            points |-> plan.points, calls |-> plan.calls,
                            path |-> "large"]
                      ELSE [status |-> "ok", written |-> TRUE,
                            out |-> imwrite(Compose(images, plan.points,
                                                    width, total_height)),
                            points |-> plan.points, calls |-> plan.calls,
                            path |-> "normal"]

(***************************************************************************)
(* TileGenerator.generate_tiles: the geometry of the pyramid.              *)
(***************************************************************************)
RECURSIVE CeilLog2Up(_, _, _)
CeilLog2Up(m, t, k) == IF t >= m THEN k ELSE CeilLog2Up(m, 2 * t, k + 1)

RECURSIVE CeilLog2Down(_, _, _)
CeilLog2Down(m, t, j) == IF 2 * m <= t THEN CeilLog2Down(2 * m, t, j + 1) ELSE j

\* int(np.ceil(np.log2(m / ts))): the least k, negative when 2 * m <= ts,
\* with 2^k * ts >= m
CeilLog2Ratio(m, ts) ==
    IF m > ts THEN CeilLog2Up(m, ts, 0) ELSE 0 - CeilLog2Down(m, ts, 0)

\* the mutation of num_levels: the + 1 is left out
num_levels_less_one(width, height, ts) == CeilLog2Ratio(Max(width, height), ts)

num_levels(width, height, ts) == CeilLog2Ratio(Max(width, height), ts) + 1

CeilDiv(a, b) == (a + b - 1) \div b

level_info(level, w, h, ts) ==
    [level |-> level, width |-> w, height |-> h,
     tiles_x |-> CeilDiv(w, ts), tiles_y |-> CeilDiv(h, ts)]

\* the mutation of tile_box: tiles reach one pixel into their right and lower
\* neighbours
tile_box_overlapping(tx, ty, w, h, ts) ==
    [x1 |-> tx * ts, y1 |-> ty * ts,
     x2 |-> Min(tx * ts + ts + 1, w), y2 |-> Min(ty * ts + ts + 1, h)]

\* x1, y1, x2, y2 of tile (tx, ty) of an image of w columns and h rows
tile_box(tx, ty, w, h, ts) ==
    [x1 |-> tx * ts, y1 |-> ty * ts,
     x2 |-> Min(tx * ts + ts, w), y2 |-> Min(ty * ts + ts, h)]

\* current_img[y1:y2, x1:x2]
Slice(img, box) ==
    [y \in 1 .. box.y2 - box.y1 |->
        [x \in 1 .. box.x2 - box.x1 |-> img[box.y1 + y][box.x1 + x]]]

\* the value of a pixel cv2.resize computed; the interpolation is not modelled
Resampled == 0 - 1

\* cv2.resize(current_img, (new_w, new_h))
resize(img, new_w, new_h) == [y \in 1 .. new_h |-> [x \in 1 .. new_w |-> Resampled]]

\* the mutation of downsampled: half the size, rounded up
downsampled_up(n) == (n + 1) \div 2

\* new_w = max(1, w // 2) and new_h = max(1, h // 2)
downsampled(n) == Max(1, n \div 2)

\* manifest['levels'] in the order the loop appends it, from level down to 0
RECURSIVE Levels(_, _, _, _)
Levels(level, w, h, ts) ==
    IF level < 0 THEN << >>
    ELSE <<level_info(level, w, h, ts)>>
         \o Levels(level - 1, downsampled(w), downsampled(h), ts)

\* the tile files <level>/<tx>_<ty>.png written for the levels
TileKeys(levels) ==
    UNION {{<<levels[i].level, tx, ty>> :
                tx \in 0 .. levels[i].tiles_x - 1, ty \in 0 .. levels[i].tiles_y - 1} :
           i \in 1 .. Len(levels)}

NoManifest ==
    [width |-> 0, height |-> 0, tile_size |-> tile_size, overlap |-> overlap,
     format |-> "none", levels |-> << >>]

generate_tiles(image_bytes) ==
    LET img == load_image(image_bytes)
    IN  IF img = None
        THEN [status |-> "error", manifest |-> NoManifest, keys |-> {}]
        ELSE LET width == Width(img)
                 height == Height(img)
                 levels == Levels(num_levels(width, height, tile_size) - 1,
                                  width, height, tile_size)
             IN  [status |-> "ok",
                  manifest |-> [width |-> width, height |-> height,
                                tile_size |-> tile_size, overlap |-> overlap,
                                format |-> "png", levels |-> levels],
                  keys |-> TileKeys(levels)]

(***************************************************************************)
(* FrameProcessorService: the state.                                       *)
(***************************************************************************)
VARIABLES
    sessions,   \* self.sessions: session id -> CaptureSession
    files,      \* storage/frames: path -> bytes
    stitched,   \* storage/stitched/<sid>_stitched.png: session id -> bytes
    tiles,      \* storage/tiles/<sid>: session id -> manifest.json and tile files
    created,    \* history: how many CaptureSession objects were constructed
    added,      \* history: how many frames were added
    closed,     \* history: ids whose complete_session returned and that
                \* create_session has not handed out since
    last,       \* history: the last call and how it ended and, when it is a
                \* complete_session, what it was given and handed on
    probe       \* the call under examination when one function of the module
                \* is applied on its own: its arguments and what it returned

vars == <<sessions, files, stitched, tiles, created, added, closed, last, probe>>

\* the state of the service, which a call of a single function leaves alone
service == <<sessions, files, stitched, tiles, created, added, closed, last>>

NoProbe == [pc |-> "none"]

\* CaptureSession.__init__
CaptureSession(session_id) ==
    [session_id |-> session_id, frames |-> << >>, metadata |-> EmptyMetadata]

\* self.sessions[session_id] = CaptureSession(session_id)
Register(registry, session_id) ==
    (session_id :> CaptureSession(session_id)) @@ registry

\* the mutation of evict: the entry is kept
evict_nothing(registry, session_id) == registry

\* del self.sessions[session_id]
evict(registry, session_id) ==
    [s \in DOMAIN registry \ {session_id} |-> registry[s]]

\* the frame_info dictionary; scroll_position, viewport_height and timestamp
\* are stored with it and read by nothing
frame_info(session_id, frame_data) ==
    [frame_number |-> frame_data.frame_number,
     path |-> FramePath(session_id, frame_data.frame_number)]

\* CaptureSession.add_frame
session_add_frame(session, frame_data) ==
    [session EXCEPT !.frames = Append(@, frame_info(session.session_id, frame_data))]

\* insertion of one frame_info behind every entry with a key <= its own
RECURSIVE InsertByFrameNumber(_, _)
InsertByFrameNumber(sorted, f) ==
    IF sorted = << >> THEN <<f>>
    ELSE IF sorted[Len(sorted)].frame_number <= f.frame_number
    THEN Append(sorted, f)
    ELSE Append(InsertByFrameNumber(SubSeq(sorted, 1, Len(sorted) - 1), f),
                sorted[Len(sorted)])

RECURSIVE SortPrefix(_, _)
SortPrefix(frames, n) ==
    IF n = 0 THEN << >>
    ELSE InsertByFrameNumber(SortPrefix(frames, n - 1), frames[n])

\* the mutation of sorted_frames: the frames stay in arrival order
unsorted_frames(frames) == frames

\* sorted(session.frames, key=lambda f: f['frame_number']), a stable sort
sorted_frames(frames) == SortPrefix(frames, Len(frames))

\* get_session_info, which reads and changes nothing
NoInfo == [session_id |-> 0, frame_count |-> 0, metadata |-> "None"]
get_session_info(session_id) ==
    IF session_id \notin DOMAIN sessions THEN NoInfo
    ELSE [session_id |-> session_id,
          frame_count |-> Len(sessions[session_id].frames),
          metadata |-> sessions[session_id].metadata]

NoCall ==
    [op |-> "none", sid |-> 0, result |-> "none",
     arrival |-> << >>, paths |-> << >>, points |-> << >>, calls |-> 0,
     path |-> "none", total_frames |-> 0]

\* FrameProcessorService.__init__: no session, and nothing stored yet
Idle ==
    /\ sessions = [s \in {} |-> 0]
    /\ files = [p \in {} |-> 0]
    /\ stitched = [s \in {} |-> 0]
    /\ tiles = [s \in {} |-> 0]
    /\ created = 0
    /\ added = 0
    /\ closed = {}
    /\ last = NoCall

Init == Idle /\ probe = NoProbe

(***************************************************************************)
(* create_session; session_id is the value of str(uuid.uuid4())[:8].       *)
(***************************************************************************)
create_session(session_id) ==
    /\ created < MaxSessions
    /\ created' = created + 1
    /\ sessions' = Register(sessions, session_id)
    /\ closed' = closed \ {session_id}
    /\ last' = [NoCall EXCEPT !.op = "create_session", !.result = "ok"]
    /\ UNCHANGED <<files, stitched, tiles, added, probe>>

(***************************************************************************)
(* add_frame; new_id is the identifier create_session draws when the       *)
(* session is not in the registry.                                         *)
(***************************************************************************)
add_frame(session_id, frame_data, new_id) ==
    LET known == session_id \in DOMAIN sessions
        target == IF known THEN session_id ELSE new_id
        registry == IF known THEN sessions ELSE Register(sessions, new_id)
    IN  /\ added < MaxAdds
        /\ added' = added + 1
        /\ known \/ created < MaxSessions
        /\ created' = IF known THEN created ELSE created + 1
        /\ sessions' = [registry EXCEPT
                           ![target] = session_add_frame(@, frame_data)]
        /\ files' = (FramePath(target, frame_data.frame_number)
                        :> frame_data.image_base64) @@ files
        /\ closed' = IF known THEN closed ELSE closed \ {new_id}
        /\ last' = [NoCall EXCEPT !.op = "add_frame", !.result = "ok"]
        /\ UNCHANGED <<stitched, tiles, probe>>

(***************************************************************************)
(* complete_session.  It has no await, so it runs to its end or to its     *)
(* exception in one step of the event loop.                                *)
(***************************************************************************)
\* the mutation of session_not_found: get-or-create, as add_frame does
session_not_found_create(session_id) ==
    /\ sessions' = Register(sessions, session_id)
    /\ last' = [NoCall EXCEPT !.op = "complete_session", !.sid = session_id,
                              !.result = "error"]
    /\ UNCHANGED <<files, stitched, tiles, created, added, closed, probe>>

\* raise ValueError(f"Session not found: {session_id}")
session_not_found(session_id) ==
    /\ last' = [NoCall EXCEPT !.op = "complete_session", !.sid = session_id,
                              !.result = "SessionNotFound"]
    /\ UNCHANGED <<sessions, files, stitched, tiles, created, added, closed, probe>>

\* the estimates find_overlap can be given for these frames
ValidEst(frame_bytes, est) ==
    \A i \in DOMAIN est :
        IF i < Len(frame_bytes)
        THEN est[i] \in EstOutcomes(Height(load_image(frame_bytes[i])),
                                    Height(load_image(frame_bytes[i + 1])))
        ELSE est[i] = NoMatch

\* the rest of complete_session once stitch_frames and generate_tiles have
\* returned st and tg (tg is not computed when stitch_frames raised)
finish_session(session_id, metadata, frame_paths, st, tg) ==
    LET with_metadata == [sessions EXCEPT ![session_id].metadata = metadata]
        call == [NoCall EXCEPT !.op = "complete_session", !.sid = session_id,
                               !.arrival = sessions[session_id].frames,
                               !.paths = frame_paths, !.points = st.points,
                               !.calls = st.calls, !.path = st.path]
    IN  /\ UNCHANGED <<files, created, added, probe>>
        /\ stitched' = IF st.written
                       THEN (session_id :> st.out) @@ stitched
                       ELSE stitched
        /\ IF st.status = "error" \/ tg.status = "error"
           THEN /\ sessions' = with_metadata
                /\ tiles' = tiles
                /\ closed' = closed
                /\ last' = [call EXCEPT !.result = "error"]
           ELSE /\ sessions' = evict(with_metadata, session_id)
                /\ tiles' = (session_id :>
                               [manifest |-> tg.manifest,
                                keys |-> tg.keys \cup
                                   (IF session_id \in DOMAIN tiles
                                    THEN tiles[session_id].keys ELSE {})])
                             @@ tiles
                /\ closed' = closed \cup {session_id}
                /\ last' = [call EXCEPT !.result = "ok",
                                        !.total_frames = Len(frame_paths)]

complete_session(session_id, metadata, est) ==
    IF session_id \notin DOMAIN sessions
    THEN session_not_found(session_id)
    ELSE \E sorted \in {sorted_frames(sessions[session_id].frames)} :
         \E frame_paths \in {[i \in 1 .. Len(sorted) |-> sorted[i].path]} :
         \E frame_bytes \in {[i \in 1 .. Len(sorted) |-> files[frame_paths[i]]]} :
            /\ ValidEst(frame_bytes, est)
            /\ \E st \in {stitch_frames(frame_bytes, est)} :
               \E tg \in {generate_tiles(st.out)} :
                  finish_session(session_id, metadata, frame_paths, st, tg)

CreateSession == \E session_id \in SessionIds : create_session(session_id)

AddFrame ==
    \E session_id \in SessionIds, frame_data \in FrameData :
        \E new_id \in IF session_id \in DOMAIN sessions
                       THEN {session_id} ELSE SessionIds :
            add_frame(session_id, frame_data, new_id)

CompleteSession ==
    \E session_id \in SessionIds, metadata \in Metadatas,
       est \in [1 .. MaxAdds - 1 -> EstOutcomes(FrameHeight, FrameHeight)] :
        complete_session(session_id, metadata, est)

Next == CreateSession \/ AddFrame \/ CompleteSession

Spec == Init /\ [][Next]_vars

(***************************************************************************)
(* FrameStitcher.stitch_frames applied on its own to a list of frames of   *)
(* several heights and widths.                                             *)
(***************************************************************************)
StitchFrames ==
    {[img |-> Gradient(h, w, 5 * h + 10 * w), enc |-> "client"] :
        h \in {ShortFrame, TallFrame}, w \in 1 .. MaxFrameWidth}

StitchInputs ==
    UNION {[1 .. n -> StitchFrames] : n \in 1 .. MaxStitchFrames}

\* no match, or a match with the least or the greatest displacement the
\* search regions allow
ExtremeOutcomes(height1, height2) ==
    {e \in EstOutcomes(height1, height2) :
        e.matched => e.d \in {1 - overlap_region(height1, height2),
                              overlap_region(height1, height2) - 1}}

StitchEstimates(frame_bytes) ==
    {est \in [1 .. MaxStitchFrames - 1 -> ExtremeOutcomes(TallFrame, TallFrame)
                                          \cup ExtremeOutcomes(ShortFrame, ShortFrame)] :
        /\ ValidEst(frame_bytes, est)
        /\ \A i \in 1 .. Len(frame_bytes) - 1 :
              est[i] \in ExtremeOutcomes(Height(load_image(frame_bytes[i])),
                                         Height(load_image(frame_bytes[i + 1])))}

StitchInit ==
    /\ Idle
    /\ \E frame_bytes \in StitchInputs :
          \E est \in StitchEstimates(frame_bytes) :
             probe = [fn |-> "stitch_frames", pc |-> "call",
                      frame_bytes |-> frame_bytes, est |-> est,
                      result |-> StitchError(<< >>, 0)]

call_stitch_frames ==
    /\ probe.pc = "call"
    /\ probe' = [probe EXCEPT !.pc = "return",
                               !.result = stitch_frames(probe.frame_bytes, probe.est)]
    /\ UNCHANGED service

StitchNext == call_stitch_frames

StitchSpec == StitchInit /\ [][StitchNext]_vars

(***************************************************************************)
(* FrameStitcher.find_overlap applied on its own to two frames cut from    *)
(* one page whose row y has the value y: img1 is rows 1..height1 and img2  *)
(* starts k rows above the end of img1, so the frames overlap by k rows    *)
(* (or img2 lies inside img1 when it is shorter than k).                   *)
(***************************************************************************)
PageRows(first, height) == [y \in 1 .. height |-> <<first + y - 1>>]

OverlapInit ==
    /\ Idle
    /\ \E height1 \in 1 .. MaxHeight, height2 \in 1 .. MaxHeight :
          \E k \in 0 .. height1 - 1, est \in EstOutcomes(height1, height2) :
             probe = [fn |-> "find_overlap", pc |-> "call",
                      img1 |-> PageRows(1, height1),
                      img2 |-> PageRows(height1 - k + 1, height2),
                      k |-> k, est |-> est, result |-> 0]

call_find_overlap ==
    /\ probe.pc = "call"
    /\ probe' = [probe EXCEPT !.pc = "return",
                               !.result = find_overlap(probe.img1, probe.img2,
                                                       probe.est)]
    /\ UNCHANGED service

OverlapNext == call_find_overlap

OverlapSpec == OverlapInit /\ [][OverlapNext]_vars

(***************************************************************************)
(* TileGenerator.generate_tiles applied on its own, one file operation at  *)
(* a time, by a generator whose tile_size is SmallTile or LargeTile.       *)
(* probe.written is the tile files (level, tx, ty) on disk, probe.saved    *)
(* manifest.json, probe.result the manifest returned.                      *)
(***************************************************************************)
\* an image whose pixels all differ
Picture(w, h) == [y \in 1 .. h |-> [x \in 1 .. w |-> 10 * y + x]]

TileInputs ==
    {imwrite(Picture(w, h)) : w \in 1 .. MaxTileDim, h \in 1 .. MaxTileDim}
        \cup {Garbage}

TileInit ==
    /\ Idle
    /\ \E image_bytes \in TileInputs, ts \in {SmallTile, LargeTile} :
          probe = [fn |-> "generate_tiles", pc |-> "call", ts |-> ts,
                   image_bytes |-> image_bytes, img |-> None,
                   current_img |-> None, level |-> 0, tx |-> 0, ty |-> 0,
                   levels |-> << >>, written |-> [key \in {} |-> None],
                   saved |-> NoManifest, result |-> NoManifest, faults |-> 0]

\* from cv2.imread to the head of the loop over the levels
read_image ==
    /\ probe.pc = "call"
    /\ LET img == load_image(probe.image_bytes)
       IN  probe' =
             IF img = None THEN [probe EXCEPT !.pc = "raised"]
             ELSE LET n == num_levels(Width(img), Height(img), probe.ts)
                  IN  [probe EXCEPT !.img = img, !.current_img = img,
                                    !.level = n - 1,
                                    !.pc = IF n >= 1 THEN "mkdir" ELSE "manifest"]
    /\ UNCHANGED service

\* level_dir.mkdir(exist_ok=True)
make_level_dir ==
    /\ probe.pc = "mkdir"
    /\ probe' = [probe EXCEPT !.pc = "tile", !.tx = 0, !.ty = 0]
    /\ UNCHANGED service

\* the position after tile (tx, ty) in "for ty ... for tx ..."
after_tile(p) ==
    LET info == level_info(p.level, Width(p.current_img), Height(p.current_img), p.ts)
    IN  IF p.tx + 1 < info.tiles_x THEN [p EXCEPT !.tx = p.tx + 1]
        ELSE IF p.ty + 1 < info.tiles_y THEN [p EXCEPT !.tx = 0, !.ty = p.ty + 1]
        ELSE [p EXCEPT !.pc = "append"]

\* cv2.imwrite(str(tile_path), tile)
write_tile ==
    /\ probe.pc = "tile"
    /\ LET box == tile_box(probe.tx, probe.ty, Width(probe.current_img),
                           Height(probe.current_img), probe.ts)
           tile == Slice(probe.current_img, box)
       IN  probe' = after_tile([probe EXCEPT !.written =
                         (<<probe.level, probe.tx, probe.ty>> :> tile) @@ @])
    /\ UNCHANGED service

\* manifest['levels'].append(level_info) and the downsampling
append_level ==
    /\ probe.pc = "append"
    /\ LET w == Width(probe.current_img)
           h == Height(probe.current_img)
           appended == [probe EXCEPT
                           !.levels = Append(@, level_info(probe.level, w, h, probe.ts))]
       IN  probe' =
             IF probe.level > 0
             THEN [appended EXCEPT
                      !.current_img = resize(probe.current_img,
                                             downsampled(w), downsampled(h)),
                      !.level = probe.level - 1, !.pc = "mkdir"]
             ELSE [appended EXCEPT !.pc = "manifest"]
    /\ UNCHANGED service

\* json.dump(manifest, f) into manifest.json
save_manifest ==
    /\ probe.pc = "manifest"
    /\ probe' = [probe EXCEPT
                    !.pc = "dzi",
                    !.saved = [width |-> Width(probe.img), height |-> Height(probe.img),
                               tile_size |-> probe.ts, overlap |-> overlap,
                               format |-> "png", levels |-> probe.levels]]
    /\ UNCHANGED service

\* thread.dzi is written and the manifest returned
write_dzi ==
    /\ probe.pc = "dzi"
    /\ probe' = [probe EXCEPT !.pc = "return", !.result = probe.saved]
    /\ UNCHANGED service

TileNext ==
    \/ read_image
    \/ make_level_dir
    \/ write_tile
    \/ append_level
    \/ save_manifest
    \/ write_dzi

TileSpec == TileInit /\ [][TileNext]_vars

(***************************************************************************)
(* generate_tiles on a file system that can fail: mkdir raises OSError,    *)
(* and cv2.imwrite returns False, without raising, when it cannot write    *)
(* the file; generate_tiles does not look at what cv2.imwrite returns.     *)
(***************************************************************************)
\* level_dir.mkdir(exist_ok=True) raises
level_dir_fails ==
    /\ probe.pc = "mkdir"
    /\ probe.faults < MaxFaults
    /\ probe' = [probe EXCEPT !.pc = "raised", !.faults = @ + 1]
    /\ UNCHANGED service

\* cv2.imwrite(str(tile_path), tile) returns False and writes nothing
tile_write_fails ==
    /\ probe.pc = "tile"
    /\ probe.faults < MaxFaults
    /\ probe' = after_tile([probe EXCEPT !.faults = @ + 1])
    /\ UNCHANGED service

TileFaultNext ==
    \/ read_image
    \/ make_level_dir
    \/ level_dir_fails
    \/ write_tile
    \/ tile_write_fails
    \/ append_level
    \/ save_manifest
    \/ write_dzi

TileFaultSpec == TileInit /\ [][TileFaultNext]_vars

(***************************************************************************)
(* The calls of the shared frame_processor as the event loop runs them.    *)
(* A request waits in probe.queue until the loop thread takes it up.       *)
(* add_frame is a plain function: the loop runs it from beginning to end.  *)
(* complete_session is a coroutine without a single await: it calls        *)
(* stitch_frames and generate_tiles itself, on the loop thread, and hands  *)
(* nothing to an executor, so from its first line to its return or its     *)
(* exception the loop thread is inside it (probe.running) and takes up no  *)
(* other request.                                                          *)
(***************************************************************************)
NoRequest == [op |-> "none", session_id |-> 0]

Requests == [op : {"add_frame", "complete_session"}, session_id : SessionIds]

Remove(queue, i) ==
    [j \in 1 .. Len(queue) - 1 |-> IF j < i THEN queue[j] ELSE queue[j + 1]]

LoopInit ==
    /\ Idle
    /\ probe = [fn |-> "event_loop", queue |-> << >>, running |-> NoRequest,
                arrived |-> 0, accepted |-> << >>, composed |-> << >>]

\* a client sends a request
client_request(request) ==
    /\ probe.arrived < MaxRequests
    /\ probe' = [probe EXCEPT !.arrived = @ + 1, !.queue = Append(@, request)]
    /\ UNCHANGED service

\* the loop thread, being free, runs add_frame for the i-th waiting request
loop_add_frame(i) ==
    /\ probe.running = NoRequest
    /\ probe.queue[i].op = "add_frame"
    /\ probe' = [probe EXCEPT !.queue = Remove(@, i),
                               !.accepted = Append(@, probe.queue[i].session_id)]
    /\ UNCHANGED service

\* the loop thread, being free, enters complete_session for the i-th
\* waiting request
enter_complete_session(i) ==
    /\ probe.running = NoRequest
    /\ probe.queue[i].op = "complete_session"
    /\ probe' = [probe EXCEPT !.queue = Remove(@, i), !.running = probe.queue[i]]
    /\ UNCHANGED service

\* stitch_frames and generate_tiles have run on the loop thread and
\* complete_session returns or raises
leave_complete_session ==
    /\ probe.running # NoRequest
    /\ probe' = [probe EXCEPT !.running = NoRequest,
                               !.composed = Append(@, probe.running.session_id)]
    /\ UNCHANGED service

ClientRequest == \E request \in Requests : client_request(request)
LoopAddFrame == \E i \in 1 .. Len(probe.queue) : loop_add_frame(i)
EnterCompleteSession == \E i \in 1 .. Len(probe.queue) : enter_complete_session(i)

LoopNext ==
    \/ ClientRequest
    \/ LoopAddFrame
    \/ EnterCompleteSession
    \/ leave_complete_session

LoopSpec == LoopInit /\ [][LoopNext]_vars

(***************************************************************************)
(* FrameStitcher._stitch_large applied on its own, one chunk at a time, to *)
(* the frames and stitch points of a plan whose composed height exceeds    *)
(* LargeThreshold.  probe.chunks is the list chunks, probe.result the      *)
(* array np.vstack returns, probe.out the file written.                    *)
(***************************************************************************)
\* np.vstack(chunks)
RECURSIVE vstack(_)
vstack(chunks) ==
    IF chunks = << >> THEN << >> ELSE chunks[1] \o vstack(Tail(chunks))

ChunkInit ==
    /\ Idle
    /\ \E frame_bytes \in StitchInputs :
          \E est \in StitchEstimates(frame_bytes) :
             /\ Len(frame_bytes) > 1
             /\ LET images == [i \in 1 .. Len(frame_bytes) |->
                                  load_image(frame_bytes[i])]
                    plan == StitchPlan(images, est, 2, <<0>>)
                    total_height == plan.points[Len(images)]
                                    + Height(images[Len(images)])
                IN  /\ total_height > LargeThreshold
                    /\ probe = [fn |-> "_stitch_large", pc |-> "loop",
                                images |-> images, stitch_points |-> plan.points,
                                width |-> MaxWidth(images), height |-> total_height,
                                chunk_start |-> 0, chunks |-> << >>,
                                result |-> None, out |-> NoBytes]

\* one iteration of the loop over chunk_start
append_chunk ==
    /\ probe.fn = "_stitch_large" /\ probe.pc = "loop"
    /\ probe.chunk_start < probe.height
    /\ LET chunk_end == Min(probe.chunk_start + ChunkHeight, probe.height)
           chunk == PasteImages(Zeros(chunk_end - probe.chunk_start, probe.width),
                                probe.images, probe.stitch_points, 1,
                                probe.chunk_start, chunk_end)
       IN  probe' = [probe EXCEPT !.chunks = Append(probe.chunks, chunk),
                                  !.chunk_start = probe.chunk_start + ChunkHeight]
    /\ UNCHANGED service

\* result = np.vstack(chunks), once the loop has ended
combine_chunks ==
    /\ probe.fn = "_stitch_large" /\ probe.pc = "loop"
    /\ probe.chunk_start >= probe.height
    /\ probe' = [probe EXCEPT !.pc = "save", !.result = vstack(probe.chunks)]
    /\ UNCHANGED service

\* cv2.imwrite(output_path, result); return output_path
write_result ==
    /\ probe.fn = "_stitch_large" /\ probe.pc = "save"
    /\ probe' = [probe EXCEPT !.pc = "return", !.out = imwrite(probe.result)]
    /\ UNCHANGED service

ChunkNext ==
    \/ append_chunk
    \/ combine_chunks
    \/ write_result

ChunkSpec == ChunkInit /\ [][ChunkNext]_vars

(***************************************************************************)
(* Two complete_session calls for one session id issued together, after    *)
(* the service has been in use.  Both coroutines run on the event loop:    *)
(* complete_session has no await, so the loop runs the one it has started  *)
(* to its return or its exception before it starts the other.              *)
(* probe.calls[c] is the position and the outcome of call c, probe.running *)
(* the call the loop is in (0 when it is in neither), probe.frames the     *)
(* session's frames when the calls were issued, probe.stitches how often   *)
(* stitch_frames has written a composed image.                             *)
(***************************************************************************)
NoStitch == StitchError(<< >>, 0)

IssuedCall ==
    [pc |-> "issued", result |-> "none", frame_paths |-> << >>, st |-> NoStitch]

\* two requests to complete session_id arrive
issue_two_calls(session_id) ==
    /\ probe = NoProbe
    /\ probe' = [fn |-> "complete_session", session_id |-> session_id,
                 calls |-> <<IssuedCall, IssuedCall>>, running |-> 0,
                 frames |-> sessions[session_id].frames, stitches |-> 0]
    /\ UNCHANGED service

\* the loop starts call c: the lookup, session.metadata and the sorting
enter_call(c, metadata) ==
    /\ probe # NoProbe /\ probe.fn = "complete_session"
    /\ probe.running = 0
    /\ probe.calls[c].pc = "issued"
    /\ IF probe.session_id \notin DOMAIN sessions
       THEN /\ probe' = [probe EXCEPT !.calls[c].pc = "raised",
                                      !.calls[c].result = "SessionNotFound"]
            /\ UNCHANGED service
       ELSE LET sorted == sorted_frames(sessions[probe.session_id].frames)
            IN  /\ sessions' = [sessions EXCEPT
                                   ![probe.session_id].metadata = metadata]
                /\ probe' = [probe EXCEPT
                                !.running = c,
                                !.calls[c].pc = "stitch",
                                !.calls[c].frame_paths =
                                    [i \in 1 .. Len(sorted) |-> sorted[i].path]]
                /\ UNCHANGED <<files, stitched, tiles, created, added, closed, last>>

\* self.stitcher.stitch_frames(frame_paths, stitched_path)
call_stitcher(c, est) ==
    /\ probe # NoProbe /\ probe.fn = "complete_session"
    /\ probe.running = c
    /\ probe.calls[c].pc = "stitch"
    /\ LET frame_paths == probe.calls[c].frame_paths
           frame_bytes == [i \in 1 .. Len(frame_paths) |-> files[frame_paths[i]]]
       IN  /\ ValidEst(frame_bytes, est)
           /\ \E st \in {stitch_frames(frame_bytes, est)} :
                 /\ stitched' = IF st.written
                                THEN (probe.session_id :> st.out) @@ stitched
                                ELSE stitched
                 /\ probe' =
                       IF st.status = "error"
                       THEN [probe EXCEPT !.running = 0,
                                          !.calls[c].pc = "raised",
                                          !.calls[c].result = "error",
                                          !.calls[c].st = st]
                       ELSE [probe EXCEPT !.calls[c].pc = "tile",
                                          !.calls[c].st = st,
                                          !.stitches = @ + 1]
    /\ UNCHANGED <<sessions, files, tiles, created, added, closed, last>>

\* self.tile_generator.generate_tiles(stitched_path, tiles_dir)
call_tile_generator(c) ==
    /\ probe # NoProbe /\ probe.fn = "complete_session"
    /\ probe.running = c
    /\ probe.calls[c].pc = "tile"
    /\ \E tg \in {generate_tiles(probe.calls[c].st.out)} :
          IF tg.status = "error"
          THEN /\ probe' = [probe EXCEPT !.running = 0,
                                         !.calls[c].pc = "raised",
                                         !.calls[c].result = "error"]
               /\ UNCHANGED service
          ELSE /\ tiles' = (probe.session_id :>
                              [manifest |-> tg.manifest,
                               keys |-> tg.keys \cup
                                  (IF probe.session_id \in DOMAIN tiles
                                   THEN tiles[probe.session_id].keys ELSE {})])
                            @@ tiles
               /\ probe' = [probe EXCEPT !.calls[c].pc = "evict"]
               /\ UNCHANGED <<sessions, files, stitched, created, added,
                              closed, last>>

\* del self.sessions[session_id] and the return of the result
return_result(c) ==
    /\ probe # NoProbe /\ probe.fn = "complete_session"
    /\ probe.running = c
    /\ probe.calls[c].pc = "evict"
    /\ sessions' = evict(sessions, probe.session_id)
    /\ closed' = closed \cup {probe.session_id}
    /\ probe' = [probe EXCEPT !.running = 0, !.calls[c].pc = "returned",
                              !.calls[c].result = "ok"]
    /\ UNCHANGED <<files, stitched, tiles, created, added, last>>

IssueTwoCalls == \E session_id \in DOMAIN sessions : issue_two_calls(session_id)
EnterCall == \E c \in 1 .. 2, metadata \in Metadatas : enter_call(c, metadata)
CallStitcher ==
    \E c \in 1 .. 2,
       est \in [1 .. MaxAdds - 1 -> EstOutcomes(FrameHeight, FrameHeight)] :
        call_stitcher(c, est)
CallTileGenerator == \E c \in 1 .. 2 : call_tile_generator(c)
ReturnResult == \E c \in 1 .. 2 : return_result(c)

PairNext ==
    \/ (probe = NoProbe /\ CreateSession)
    \/ (probe = NoProbe /\ AddFrame)
    \/ IssueTwoCalls
    \/ EnterCall
    \/ CallStitcher
    \/ CallTileGenerator
    \/ ReturnResult

PairSpec == Init /\ [][PairNext]_vars

(***************************************************************************)
(* The quota of POST /analyze (api/v1/analyze.py, api/deps.py and          *)
(* db/repositories/subscriptions.py): the analyze requests of one user,    *)
(* each a coroutine on the event loop.  probe.sub is the user's row of the *)
(* subscriptions table, probe.used0 its monthly_analyses_used before the   *)
(* requests, probe.requests[r] the position of request r.  A request gives *)
(* way to the others where it awaits the AI service; the calls of the      *)
(* database client do not suspend the coroutine, so the read and the write *)
(* of increment_usage are one step.                                        *)
(***************************************************************************)
\* UserSubscription.is_pro
is_pro(sub) == sub.plan_type = "pro" /\ sub.status = "active"

\* UserSubscription.analyses_remaining
analyses_remaining(sub) ==
    Max(0, sub.monthly_analyses_limit - sub.monthly_analyses_used)

\* UserSubscription.can_analyze
can_analyze(sub) == IF is_pro(sub) THEN TRUE ELSE analyses_remaining(sub) > 0

\* the rows a user can have: monthly_analyses_used of a user who is not Pro
\* has not passed the limit
Subscriptions ==
    {sub \in [plan_type : {"free", "pro"}, status : {"active", "cancelled"},
              monthly_analyses_used : 0 .. MaxLimit,
              monthly_analyses_limit : 1 .. MaxLimit] :
        sub.monthly_analyses_used <= sub.monthly_analyses_limit}

QuotaInit ==
    /\ Idle
    /\ \E sub \in Subscriptions :
          probe = [fn |-> "analyze_conversation", sub |-> sub,
                   used0 |-> sub.monthly_analyses_used,
                   requests |-> [r \in 1 .. MaxAnalyses |->
                                   [pc |-> "issued", saved |-> FALSE]],
                   faults |-> 0]

\* the dependency check_usage_limit: 429 unless subscription.can_analyze
check_usage_limit(r) ==
    /\ probe.fn = "analyze_conversation"
    /\ probe.requests[r].pc = "issued"
    /\ probe' = [probe EXCEPT !.requests[r].pc =
                                 IF can_analyze(probe.sub) THEN "analyze"
                                 ELSE "rejected"]
    /\ UNCHANGED service

\* await analyze_screenshot(...): it returns the analysis, or raises and
\* the request ends with 503 or 500
analyze_screenshot(r, answered) ==
    /\ probe.fn = "analyze_conversation"
    /\ probe.requests[r].pc = "analyze"
    /\ probe' = [probe EXCEPT !.requests[r].pc =
                                 IF answered THEN "save" ELSE "failed"]
    /\ UNCHANGED service

\* conversation_repo.create_with_responses(...), which may fail:
\* db_save_failed
create_with_responses(r, saved) ==
    /\ probe.fn = "analyze_conversation"
    /\ probe.requests[r].pc = "save"
    /\ probe' = [probe EXCEPT !.requests[r].pc = "increment",
                              !.requests[r].saved = saved]
    /\ UNCHANGED service

\* SubscriptionRepository.increment_usage: the row is read and written back
\* with monthly_analyses_used + 1
increment_usage(r) ==
    /\ probe.fn = "analyze_conversation"
    /\ probe.requests[r].pc = "increment"
    /\ LET new_count == probe.sub.monthly_analyses_used + 1
       IN  probe' = [probe EXCEPT !.sub.monthly_analyses_used = new_count,
                                  !.requests[r].pc = "respond"]
    /\ UNCHANGED service

\* the AnalyzeResponse is returned, built of the conversation saved or of
\* the analysis itself
return_response(r) ==
    /\ probe.fn = "analyze_conversation"
    /\ probe.requests[r].pc = "respond"
    /\ probe' = [probe EXCEPT !.requests[r].pc = "returned"]
    /\ UNCHANGED service

CheckUsageLimit == \E r \in 1 .. MaxAnalyses : check_usage_limit(r)
AnalyzeScreenshot ==
    \E r \in 1 .. MaxAnalyses, answered \in BOOLEAN : analyze_screenshot(r, answered)
CreateWithResponses ==
    \E r \in 1 .. MaxAnalyses, saved \in BOOLEAN : create_with_responses(r, saved)
IncrementUsage == \E r \in 1 .. MaxAnalyses : increment_usage(r)
ReturnResponse == \E r \in 1 .. MaxAnalyses : return_response(r)

QuotaNext ==
    \/ CheckUsageLimit
    \/ AnalyzeScreenshot
    \/ CreateWithResponses
    \/ IncrementUsage
    \/ ReturnResponse

QuotaSpec == QuotaInit /\ [][QuotaNext]_vars

(***************************************************************************)
(* The same requests with a database that can fail: increment_usage raises *)
(* DatabaseError, which analyze_conversation logs and drops.               *)
(***************************************************************************)
\* increment_usage raises; "except Exception as e: logger.error(...)"
increment_usage_fails(r) ==
    /\ probe.fn = "analyze_conversation"
    /\ probe.requests[r].pc = "increment"
    /\ probe.faults < MaxFaults
    /\ probe' = [probe EXCEPT !.requests[r].pc = "respond", !.faults = @ + 1]
    /\ UNCHANGED service

IncrementUsageFails == \E r \in 1 .. MaxAnalyses : increment_usage_fails(r)

QuotaFaultNext ==
    \/ QuotaNext
    \/ IncrementUsageFails

QuotaFaultSpec == QuotaInit /\ [][QuotaFaultNext]_vars

(***************************************************************************)
(* POST /webhooks/polar (api/v1/webhooks.py).  probe.secret is             *)
(* settings.polar_webhook_secret, probe.table the subscriptions table,     *)
(* user id -> row, and probe.delivery the last request: its body, its      *)
(* X-Polar-Signature header, the status returned and whether a row was     *)
(* changed.  A digest is the key and the payload it was computed of, so    *)
(* that two digests are equal when key and payload are.                    *)
(***************************************************************************)
\* the default "" of settings.polar_webhook_secret
NoSecret == 0
\* the secret shared with Polar, and a key somebody else may use
Secrets == {1, 2}

\* the request has no X-Polar-Signature header: Header(None)
NoSignature == << >>

\* "sha256=" + hmac.new(secret.encode(), payload, hashlib.sha256).hexdigest()
hmac_sha256(secret, payload) == <<"sha256=", secret, payload>>

verify_polar_signature(payload, signature, secret) ==
    hmac_sha256(secret, payload) = signature

Users == 1 .. NumUsers
PolarIds == 1 .. NumPolarIds
NoUser == 0
NoPolarId == 0

\* the bodies sent: subscription.created with the e-mail of its customer
\* (that of a user, or of nobody) and the subscription id, the other
\* subscription events with the id, an event of another type, and bytes
\* that are not JSON
Events ==
    [type : {"subscription.created"}, email : Users \cup {NoUser}, id : PolarIds]
        \cup [type : {"subscription.updated", "subscription.cancelled",
                      "subscription.revoked"},
              email : {NoUser}, id : PolarIds]
        \cup {[type |-> "other", email |-> NoUser, id |-> 1],
              [type |-> "invalid", email |-> NoUser, id |-> 1]}

\* the headers a sender can put on a body: none, the digest Polar computes,
\* a digest under another key, the digest Polar computed of another body
SignaturesOf(body, secret) ==
    {NoSignature}
        \cup {hmac_sha256(key, body) : key \in Secrets}
        \cup {hmac_sha256(secret, [body EXCEPT !.id = 0])}

\* the row of a user who never subscribed
FreeRow ==
    [plan_type |-> "free", status |-> "active", polar_subscription_id |-> NoPolarId,
     cancel_at_period_end |-> FALSE, monthly_analyses_limit |-> 10]

\* SubscriptionRepository.get_by_polar_subscription: the user of the single
\* row with that id, or nobody
get_by_polar_subscription(table, polar_id) ==
    LET found == {u \in DOMAIN table : table[u].polar_subscription_id = polar_id}
    IN  IF Cardinality(found) = 1 THEN CHOOSE u \in found : TRUE ELSE NoUser

\* SubscriptionRepository.upgrade_to_pro
upgrade_to_pro(table, user_id, polar_id) ==
    [table EXCEPT ![user_id] =
        [plan_type |-> "pro", status |-> "active", polar_subscription_id |-> polar_id,
         cancel_at_period_end |-> FALSE, monthly_analyses_limit |-> 999999]]

\* SubscriptionRepository.cancel_subscription
cancel_subscription(table, user_id) ==
    [table EXCEPT ![user_id].cancel_at_period_end = TRUE]

\* SubscriptionRepository.downgrade_to_free
downgrade_to_free(table, user_id) ==
    [table EXCEPT ![user_id] = FreeRow]

handle_subscription_created(table, data) ==
    IF data.email = NoUser THEN table
    ELSE upgrade_to_pro(table, data.email, data.id)

handle_subscription_updated(table, data) ==
    LET user_id == get_by_polar_subscription(table, data.id)
    IN  IF user_id = NoUser THEN table
        ELSE [table EXCEPT ![user_id].status = "active"]

handle_subscription_cancelled(table, data) ==
    LET user_id == get_by_polar_subscription(table, data.id)
    IN  IF user_id = NoUser THEN table ELSE cancel_subscription(table, user_id)

handle_subscription_revoked(table, data) ==
    LET user_id == get_by_polar_subscription(table, data.id)
    IN  IF user_id = NoUser THEN table ELSE downgrade_to_free(table, user_id)

\* the dispatch on event_type
handle_event(table, event) ==
    IF event.type = "subscription.created"
    THEN handle_subscription_created(table, event)
    ELSE IF event.type = "subscription.updated"
    THEN handle_subscription_updated(table, event)
    ELSE IF event.type = "subscription.cancelled"
    THEN handle_subscription_cancelled(table, event)
    ELSE IF event.type = "subscription.revoked"
    THEN handle_subscription_revoked(table, event)
    ELSE table

NoDelivery ==
    [body |-> [type |-> "none", email |-> NoUser, id |-> 1],
     signature |-> NoSignature, status |-> 0, changed |-> FALSE]

WebhookInit ==
    /\ Idle
    /\ \E secret \in {NoSecret, 1} :
          probe = [fn |-> "polar_webhook", secret |-> secret,
                   table |-> [u \in Users |-> FreeRow], delivery |-> NoDelivery]

polar_webhook(body, x_polar_signature) ==
    /\ probe.fn = "polar_webhook"
    /\ LET refused ==
              /\ probe.secret # NoSecret
              /\ x_polar_signature # NoSignature
              /\ ~verify_polar_signature(body, x_polar_signature, probe.secret)
           table == IF refused \/ body.type = "invalid" THEN probe.table
                    ELSE handle_event(probe.table, body)
       IN  probe' = [probe EXCEPT
                        !.table = table,
                        !.delivery =
                            [body |-> body, signature |-> x_polar_signature,
                             status |-> IF refused THEN 401
                                        ELSE IF body.type = "invalid" THEN 400
                                        ELSE 200,
                             changed |-> table # probe.table]]
    /\ UNCHANGED service

PolarWebhook ==
    \E body \in Events :
        \E x_polar_signature \in SignaturesOf(body, 1) :
            polar_webhook(body, x_polar_signature)

WebhookNext == PolarWebhook

WebhookSpec == WebhookInit /\ [][WebhookNext]_vars

(***************************************************************************)
(* Helpers of the properties.                                              *)
(***************************************************************************)
Completed == last.op = "complete_session" /\ last.result = "ok"
Stitching == last.op = "complete_session" /\ last.result # "SessionNotFound"

FrameNumbersOf(frames) == [i \in 1 .. Len(frames) |-> frames[i].frame_number]
PathNumbers(paths) == [i \in 1 .. Len(paths) |-> paths[i][2]]

Count(numbers, n) == Cardinality({i \in 1 .. Len(numbers) : numbers[i] = n})
SameBag(a, b) == \A n \in FrameNumbers : Count(a, n) = Count(b, n)
Ascending(numbers) ==
    \A i \in 1 .. Len(numbers) - 1 : numbers[i] <= numbers[i + 1]

\* stitch_frames, applied on its own, has returned or raised
StitchReturned == probe.pc = "return" /\ probe.fn = "stitch_frames"

\* find_overlap, applied on its own, has returned an offset
OverlapReturned ==
    probe.pc = "return" /\ probe.fn = "find_overlap" /\ probe.result # Raised

\* the matches of that call are correct: the matcher reported a displacement
\* by which some row of the bottom region of img1 and some row of the top
\* region of img2 that show the same content differ
CorrectMatches ==
    LET height1 == Height(probe.img1)
        region == overlap_region(height1, Height(probe.img2))
    IN  /\ probe.est.matched
        /\ \E y1 \in 0 .. region - 1, y2 \in 0 .. region - 1 :
              /\ y1 - y2 = probe.est.d
              /\ probe.img1[height1 - region + y1 + 1] = probe.img2[y2 + 1]

\* stitch_y of that call before the sanity check
Estimate ==
    Height(probe.img1) - overlap_region(Height(probe.img1), Height(probe.img2))
        + probe.est.d

Abs(n) == IF n < 0 THEN 0 - n ELSE n

\* generate_tiles, applied on its own, has put its manifest together
ManifestMade ==
    probe.fn = "generate_tiles" /\ probe.pc \in {"dzi", "return"}

\* 2^n for n >= 0
RECURSIVE Pow2(_)
Pow2(n) == IF n = 0 THEN 1 ELSE 2 * Pow2(n - 1)

\* 2^c >= m / ts
PowerReaches(c, m, ts) ==
    IF c >= 0 THEN Pow2(c) * ts >= m ELSE ts >= m * Pow2(0 - c)

\* ceil(log2(m / ts)): the least c with 2^c >= m / ts
CeilLog2Of(m, ts) ==
    CHOOSE c \in (0 - 16) .. 16 :
        PowerReaches(c, m, ts) /\ ~PowerReaches(c - 1, m, ts)

\* the decoded frames of that call
ProbeImages ==
    [i \in 1 .. Len(probe.frame_bytes) |-> load_image(probe.frame_bytes[i])]

(***************************************************************************)
(* C1: after complete_session(s) has succeeded, a later add_frame(s, f)    *)
(* fails with SessionNotFound and stores the frame in no session.          *)
(***************************************************************************)
C1_AddFrameAfterCompleteFails ==
    [][\A s \in closed, frame_data \in FrameData, new_id \in SessionIds :
          add_frame(s, frame_data, new_id)
             => (/\ last'.result = "SessionNotFound"
                 /\ sessions' = sessions
                 /\ files' = files)]_vars

(***************************************************************************)
(* C2: complete_session on an id that is not in the registry fails with    *)
(* SessionNotFound, produces no artifact and changes no session; of two    *)
(* complete_session calls in a row on one id the second does not succeed,  *)
(* and fails with SessionNotFound when the first succeeded.                *)
(***************************************************************************)
C2_CompleteUnknownFails ==
    [][/\ \A s \in SessionIds \ DOMAIN sessions, metadata \in Metadatas :
            complete_session(s, metadata, << >>)
               => (/\ last'.result = "SessionNotFound"
                   /\ UNCHANGED <<sessions, files, stitched, tiles>>)
       /\ (last.op = "complete_session" /\ last'.op = "complete_session"
              /\ last'.sid = last.sid)
            => (/\ last'.result # "ok"
                /\ last.result = "ok" => last'.result = "SessionNotFound")]_vars

\* a second complete_session on a completed id has just failed
C2_Witness ==
    /\ last.op = "complete_session"
    /\ last.result = "SessionNotFound"
    /\ last.sid \in closed
    /\ last.sid \in DOMAIN stitched

(***************************************************************************)
(* C3: a complete_session that fails in stitching or tiling leaves the     *)
(* session evicted from the registry.                                      *)
(***************************************************************************)
C3_FailedCompletionEvicts ==
    (last.op = "complete_session" /\ last.result = "error")
        => last.sid \notin DOMAIN sessions

(***************************************************************************)
(* C4: no session whose complete_session returned is in the registry:      *)
(* get_session_info finds nothing under its id, and the frame files it     *)
(* stitched are still stored.                                              *)
(***************************************************************************)
C4_CompletedSessionAbsent ==
    /\ closed \cap DOMAIN sessions = {}
    /\ Completed =>
          /\ last.sid \notin DOMAIN sessions
          /\ get_session_info(last.sid) = NoInfo
          /\ \A i \in 1 .. Len(last.paths) : last.paths[i] \in DOMAIN files

C4_Witness == Completed /\ Len(last.paths) = 2 /\ last.sid \in closed

(***************************************************************************)
(* C5: a session holds one frame per distinct frame_number: frame_count    *)
(* is the number of distinct frame numbers submitted.                      *)
(***************************************************************************)
C5_OneFramePerNumber ==
    \A s \in DOMAIN sessions :
        get_session_info(s).frame_count
            = Cardinality({sessions[s].frames[i].frame_number :
                              i \in 1 .. Len(sessions[s].frames)})

(***************************************************************************)
(* C6: add_frame on an id unknown to the registry fails with               *)
(* SessionNotFound or leaves the frame counted under the supplied id.      *)
(***************************************************************************)
C6_UnknownIdKeepsFrame ==
    [][\A s \in SessionIds \ DOMAIN sessions, frame_data \in FrameData,
          new_id \in SessionIds :
          add_frame(s, frame_data, new_id)
             => \/ last'.result = "SessionNotFound" /\ UNCHANGED <<sessions, files>>
                \/ /\ s \in DOMAIN sessions'
                   /\ get_session_info(s)'.frame_count >= 1
                   /\ \E i \in 1 .. Len(sessions'[s].frames) :
                         sessions'[s].frames[i].frame_number
                            = frame_data.frame_number]_vars

(***************************************************************************)
(* C7: create_session returns an id that is not in the registry, registers *)
(* an empty session under it and leaves every live session as it was, so   *)
(* the registry grows by one.                                              *)
(***************************************************************************)
C7_CreateSessionFresh ==
    [][\A session_id \in SessionIds :
          create_session(session_id)
             => /\ session_id \notin DOMAIN sessions
                /\ sessions'[session_id].frames = << >>
                /\ \A s \in DOMAIN sessions : sessions'[s] = sessions[s]
                /\ Cardinality(DOMAIN sessions')
                      = Cardinality(DOMAIN sessions) + 1]_vars

(***************************************************************************)
(* C8: the frames complete_session hands to the stitcher are ordered by    *)
(* frame_number ascending and do not depend on the arrival order: the list *)
(* is the one arrangement of the frame numbers that arrived that is fixed  *)
(* by the numbers alone, as it is for every live session holding the same  *)
(* numbers.                                                                *)
(***************************************************************************)
\* the frame numbers of a list in the order fixed by the numbers alone: each
\* number from n up, ascending, as often as it occurs
RECURSIVE OrderOfBag(_, _)
OrderOfBag(numbers, n) ==
    IF n > MaxFrameNumber THEN << >>
    ELSE [i \in 1 .. Count(numbers, n) |-> n] \o OrderOfBag(numbers, n + 1)

C8_StitchOrderByFrameNumber ==
    Stitching =>
        /\ Ascending(PathNumbers(last.paths))
        /\ PathNumbers(last.paths) = OrderOfBag(FrameNumbersOf(last.arrival), 1)
        /\ \A i \in 1 .. Len(last.paths) : last.paths[i][1] = last.sid
        /\ \A s \in DOMAIN sessions :
              SameBag(FrameNumbersOf(sessions[s].frames),
                      FrameNumbersOf(last.arrival))
                 => FrameNumbersOf(sorted_frames(sessions[s].frames))
                        = PathNumbers(last.paths)

\* frame 2 arrived before frame 1 and the session was stitched
C8_Witness ==
    /\ Completed
    /\ FrameNumbersOf(last.arrival) = <<2, 1>>
    /\ PathNumbers(last.paths) = <<1, 2>>

(***************************************************************************)
(* C9: the image the chunked composer writes is, pixel for pixel, the      *)
(* image the non-chunked composer makes of the same frames and stitch      *)
(* points.                                                                 *)
(***************************************************************************)
C9_ChunkedEqualsNormal ==
    (StitchReturned /\ probe.result.path = "large")
        => load_image(probe.result.out)
              = Compose(ProbeImages, probe.result.points, MaxWidth(ProbeImages),
                        probe.result.points[Len(ProbeImages)]
                            + Height(ProbeImages[Len(ProbeImages)]))

(***************************************************************************)
(* C10: for a session with exactly one frame the composed image is a       *)
(* byte-identical copy of the frame and find_overlap is not entered.       *)
(***************************************************************************)
C10_SingleFrameCopy ==
    (Stitching /\ Len(last.paths) = 1)
        => /\ last.sid \in DOMAIN stitched
           /\ stitched[last.sid] = files[last.paths[1]]
           /\ last.calls = 0

C10_Witness ==
    /\ Completed
    /\ last.total_frames = 1
    /\ stitched[last.sid].enc = "client"

(***************************************************************************)
(* C11: for every list of one or more frames the stitch plan starts at     *)
(* y_start = 0 and never decreases, whether find_overlap returned a        *)
(* matched offset, the fallback in place of an estimate outside the band,  *)
(* or the fallback for want of matches; a single frame is placed at row 0  *)
(* as it is.                                                               *)
(***************************************************************************)
C11_PlanStartsAtZeroAscending ==
    StitchReturned =>
        IF Len(probe.frame_bytes) = 1
        THEN probe.result.points = << >> /\ probe.result.out = probe.frame_bytes[1]
        ELSE /\ probe.result.points[1] = 0
             /\ \A i \in 1 .. Len(probe.result.points) - 1 :
                   probe.result.points[i] <= probe.result.points[i + 1]
             /\ probe.result.status = "ok"
                   => Len(probe.result.points) = Len(probe.frame_bytes)

\* three tall frames: the first estimate is kept, the second lies below the
\* band and is replaced by the fallback
C11_Witness ==
    /\ StitchReturned
    /\ probe.result.status = "ok"
    /\ Len(probe.frame_bytes) = 3
    /\ \A i \in 1 .. 3 : Height(ProbeImages[i]) = TallFrame
    /\ probe.est[1].matched /\ probe.est[2].matched
    /\ probe.result.points[2]
          = TallFrame - overlap_region(TallFrame, TallFrame) + probe.est[1].d
    /\ 2 * (TallFrame - overlap_region(TallFrame, TallFrame) + probe.est[2].d)
          < TallFrame
    /\ probe.result.points[3] = probe.result.points[2] + fallback_offset(TallFrame)

(***************************************************************************)
(* C12: the composed image is exactly as high as the last stitch point     *)
(* plus the height of the last frame and exactly as wide as the widest     *)
(* frame, on the copying, the non-chunked and the chunked path.            *)
(***************************************************************************)
C12_ComposedSize ==
    (StitchReturned /\ probe.result.status = "ok")
        => LET n == Len(ProbeImages)
               y_start == IF n = 1 THEN 0 ELSE probe.result.points[n]
               out == load_image(probe.result.out)
           IN  /\ probe.result.written
               /\ Height(out) = y_start + Height(ProbeImages[n])
               /\ \A i \in 1 .. n : Width(ProbeImages[i]) <= Width(out)
               /\ \E i \in 1 .. n : Width(ProbeImages[i]) = Width(out)
               /\ \A y \in 1 .. Height(out) : Len(out[y]) = Width(out)
               /\ probe.result.path
                     = IF n = 1 THEN "copy"
                       ELSE IF Height(out) > LargeThreshold THEN "large"
                       ELSE "normal"

\* a chunked composition whose last chunk is a partial one and whose first
\* frame is narrower than a later one
C12_Witness ==
    /\ StitchReturned
    /\ probe.result.path = "large"
    /\ Height(load_image(probe.result.out)) % ChunkHeight # 0
    /\ Height(load_image(probe.result.out)) > ChunkHeight
    /\ \E i \in 2 .. Len(ProbeImages) : Width(ProbeImages[1]) < Width(ProbeImages[i])

(***************************************************************************)
(* C13 as claimed: for two frames with a true overlap of k rows,           *)
(* 0 < k < height(A), and correct matches, find_overlap returns an offset  *)
(* within 5 rows of height(A) - k.                                         *)
(***************************************************************************)
C13_OffsetNearTrueOverlap ==
    (probe.pc = "return" /\ probe.fn = "find_overlap" /\ probe.k > 0
        /\ CorrectMatches)
        => /\ probe.result # Raised
           /\ Abs(probe.result - (Height(probe.img1) - probe.k)) <= 5

(***************************************************************************)
(* C13 amended: for two frames with a true overlap of k rows,              *)
(* 0 < k <= height(A) / 2, and correct matches, find_overlap returns an    *)
(* offset within 5 rows of height(A) - k.                                  *)
(***************************************************************************)
C13_OffsetNearOverlapUpToHalf ==
    (probe.pc = "return" /\ probe.fn = "find_overlap" /\ probe.k > 0
        /\ 2 * probe.k <= Height(probe.img1) /\ CorrectMatches)
        => /\ probe.result # Raised
           /\ Abs(probe.result - (Height(probe.img1) - probe.k)) <= 5

\* an overlap of exactly half of img1, wider than the search region, found
C13_Witness ==
    /\ OverlapReturned
    /\ CorrectMatches
    /\ 2 * probe.k = Height(probe.img1)
    /\ probe.k > overlap_region(Height(probe.img1), Height(probe.img2))
    /\ probe.result = Height(probe.img1) - probe.k

(***************************************************************************)
(* C19: whatever the heights of the two frames, an offset find_overlap     *)
(* returns lies in [0.5 * height(A), height(A)].                           *)
(***************************************************************************)
C19_OffsetInBand ==
    OverlapReturned
        => /\ 2 * probe.result >= Height(probe.img1)
           /\ probe.result <= Height(probe.img1)

\* an estimate below half the height came back as an offset in the band
C19_Witness ==
    /\ OverlapReturned
    /\ probe.est.matched
    /\ 2 * Estimate < Height(probe.img1)
    /\ 2 * probe.result >= Height(probe.img1)

(***************************************************************************)
(* C20: whenever the estimate made from the matches lies outside           *)
(* [0.5 * height(A), height(A)], below or above, find_overlap returns the  *)
(* fallback int(0.8 * height(A)) and not the estimate.                     *)
(***************************************************************************)
C20_OutOfBandGivesFallback ==
    (OverlapReturned /\ probe.est.matched
        /\ (2 * Estimate < Height(probe.img1) \/ Estimate > Height(probe.img1)))
        => /\ probe.result = (8 * Height(probe.img1)) \div 10
           /\ probe.result # Estimate

\* the least displacement the regions allow puts the estimate below the band
C20_Witness ==
    /\ OverlapReturned
    /\ probe.est.matched
    /\ probe.est.d = 1 - overlap_region(Height(probe.img1), Height(probe.img2))
    /\ 2 * Estimate < Height(probe.img1)
    /\ probe.result = (8 * Height(probe.img1)) \div 10

C15_FinestTilesPartition ==
    (ManifestMade /\ Len(probe.saved.levels) >= 1) =>
        LET ts == probe.ts
            W == Width(probe.img)
            H == Height(probe.img)
            finest == probe.saved.levels[1].level
            keys == {key \in DOMAIN probe.written : key[1] = finest}
            covers(key, x, y) ==
                /\ key[2] * ts <= x /\ x < key[2] * ts + Width(probe.written[key])
                /\ key[3] * ts <= y /\ y < key[3] * ts + Height(probe.written[key])
        IN  /\ keys = {<<finest, tx, ty>> : tx \in 0 .. (W + ts - 1) \div ts - 1,
                                             ty \in 0 .. (H + ts - 1) \div ts - 1}
            /\ \A key \in keys :
                  /\ Height(probe.written[key]) \in 1 .. ts
                  /\ \A r \in 1 .. Height(probe.written[key]) :
                        Len(probe.written[key][r]) \in 1 .. ts
                  /\ \A r \in 1 .. Height(probe.written[key]) :
                        Len(probe.written[key][r]) = Width(probe.written[key])
            /\ \A x \in 0 .. W - 1, y \in 0 .. H - 1 :
                  /\ Cardinality({key \in keys : covers(key, x, y)}) = 1
                  /\ \A key \in keys :
                        covers(key, x, y)
                           => probe.written[key][y - key[3] * ts + 1]
                                                [x - key[2] * ts + 1]
                                = probe.img[y + 1][x + 1]

\* six tiles at the finest level, those of the last column and row smaller
C15_Witness ==
    /\ ManifestMade
    /\ Width(probe.img) = 2 * probe.ts + 1
    /\ Height(probe.img) = probe.ts + 1
    /\ Cardinality({key \in DOMAIN probe.written :
                       key[1] = probe.saved.levels[1].level}) = 6

(***************************************************************************)
(* C16: while complete_session is stitching and tiling for one session, an *)
(* add_frame request for another session that is waiting can be accepted:  *)
(* the composition does not hold the thread that serves the requests.      *)
(***************************************************************************)
C16_IngestionNotBlocked ==
    (probe.fn = "event_loop" /\ probe.running.op = "complete_session")
        => \A i \in 1 .. Len(probe.queue) :
              (probe.queue[i].op = "add_frame"
                  /\ probe.queue[i].session_id # probe.running.session_id)
                 => ENABLED loop_add_frame(i)

(***************************************************************************)
(* C17: complete_session on a session that holds no frame ends in an       *)
(* error: it returns no result and writes no composed image, no tile and   *)
(* no manifest.                                                            *)
(***************************************************************************)
C17_EmptySessionFails ==
    [][\A s \in DOMAIN sessions, metadata \in Metadatas :
          (sessions[s].frames = << >>
              /\ complete_session(s, metadata, [i \in 1 .. MaxAdds - 1 |-> NoMatch]))
             => /\ last'.result = "error"
                /\ last'.total_frames = 0
                /\ UNCHANGED <<files, stitched, tiles>>]_vars

\* a session without frames was completed, in vain, and nothing is stored
\* under its id
C17_Witness ==
    /\ last.op = "complete_session"
    /\ last.result = "error"
    /\ last.paths = << >>
    /\ last.sid \in DOMAIN sessions
    /\ last.sid \notin DOMAIN stitched
    /\ last.sid \notin DOMAIN tiles

(***************************************************************************)
(* C18: a manifest is saved or returned only after every tile of every     *)
(* level it lists has been written; when tiling fails part-way the call    *)
(* ends in an error, and neither manifest.json nor a returned manifest     *)
(* exists then.                                                            *)
(***************************************************************************)
C18_ManifestAfterAllTiles ==
    probe.fn = "generate_tiles" =>
        /\ TileKeys(probe.saved.levels) \subseteq DOMAIN probe.written
        /\ TileKeys(probe.result.levels) \subseteq DOMAIN probe.written
        /\ probe.pc = "raised" => probe.saved = NoManifest /\ probe.result = NoManifest
        /\ probe.pc = "return" => probe.faults = 0

(***************************************************************************)
(* C21: when a search region yields fewer than 2 descriptors (none         *)
(* included) or fewer than 4 matches survive, find_overlap returns exactly *)
(* int(0.8 * height(A)) as a normal value and raises nothing.              *)
(***************************************************************************)
C21_FallbackNeverRaises ==
    (probe.pc = "return" /\ probe.fn = "find_overlap" /\ ~probe.est.matched)
        => /\ probe.result # Raised
           /\ probe.result = (8 * Height(probe.img1)) \div 10

(***************************************************************************)
(* C22: on the non-chunked path, for each frame after the first, every     *)
(* canvas row inside the band where the frame overlaps the placement of    *)
(* the previous frame is a linear cross-fade of what the canvas held and   *)
(* the frame's row, the frame's weight being 0 at the band's first row and *)
(* growing by 1 / (rows of the band) with each row, below 1 throughout;    *)
(* every row of the frame below the band is the frame's row as it is.      *)
(* The canvas is taken when the frame has just been placed; a value of the *)
(* band is the cross-fade cut to an integer, or one less where a rounding  *)
(* error of the floating-point product can fall below an integer.          *)
(***************************************************************************)
\* the canvas when the first n frames of that call have been placed
RECURSIVE CanvasAfter(_)
CanvasAfter(n) ==
    LET total_height == probe.result.points[Len(ProbeImages)]
                        + Height(ProbeImages[Len(ProbeImages)])
    IN  IF n = 0 THEN Zeros(total_height, Width(load_image(probe.result.out)))
        ELSE PlaceImage(CanvasAfter(n - 1), ProbeImages, probe.result.points,
                        n, total_height)

\* the rows [first, last) of the canvas in which frame i overlaps the
\* placement of frame i - 1, and the row where that placement ends
BandOf(i) ==
    LET y_start == probe.result.points[i]
        previous_end == probe.result.points[i - 1] + Height(ProbeImages[i - 1])
    IN  [first |-> y_start,
         last |-> Min(Min(previous_end, y_start + Height(ProbeImages[i])),
                      Height(load_image(probe.result.out))),
         rows |-> previous_end - y_start]

RECURSIVE RowsFrom(_, _)
RowsFrom(chunks, i) ==
    IF i > Len(chunks) THEN 0 ELSE Height(chunks[i]) + RowsFrom(chunks, i + 1)

\* the rows of output the composer holds: the chunks made and the result
RowsHeld == RowsFrom(probe.chunks, 1) + Len(probe.result)

TallestFrame ==
    CHOOSE h \in {Height(probe.images[i]) : i \in 1 .. Len(probe.images)} :
        \A i \in 1 .. Len(probe.images) : Height(probe.images[i]) <= h

\* the chunks made so far are the bands [0, ChunkHeight), [ChunkHeight,
\* 2 * ChunkHeight), ... of the composed image, the last one ending with it
BandsPartition ==
    probe.fn = "_stitch_large"
        => /\ \A i \in 1 .. Len(probe.chunks) :
                 Height(probe.chunks[i])
                    = Min(i * ChunkHeight, probe.height) - (i - 1) * ChunkHeight
           /\ RowsFrom(probe.chunks, 1) = Min(probe.chunk_start, probe.height)
           /\ probe.pc # "loop" => RowsFrom(probe.chunks, 1) = probe.height

C23_BandsWithoutFullBuffer ==
    probe.fn = "_stitch_large"
        => /\ BandsPartition
           /\ Len(probe.result) < probe.height
           /\ RowsHeld <= TallestFrame + ChunkHeight

(***************************************************************************)
(* C24: in every pyramid generate_tiles makes, the level with the highest  *)
(* index has the width and height of the image; each next lower level has  *)
(* width max(1, floor(w / 2)) and height max(1, floor(h / 2)) of the level *)
(* above it; every level has tiles_x = ceil(w / tile_size) and             *)
(* tiles_y = ceil(h / tile_size), and that many tile files; and at level 0 *)
(* neither dimension exceeds tile_size.                                    *)
(***************************************************************************)
C24_LevelDimensions ==
    (ManifestMade /\ Len(probe.saved.levels) >= 1) =>
        LET levels == probe.saved.levels
            n == Len(levels)
            half(d) == IF d \div 2 < 1 THEN 1 ELSE d \div 2
        IN  /\ levels[1].width = Width(probe.img)
            /\ levels[1].height = Height(probe.img)
            /\ \A i \in 1 .. n - 1 :
                  /\ levels[i + 1].level = levels[i].level - 1
                  /\ levels[i + 1].width = half(levels[i].width)
                  /\ levels[i + 1].height = half(levels[i].height)
            /\ \A i \in 1 .. n :
                  /\ (levels[i].tiles_x - 1) * probe.ts < levels[i].width
                  /\ levels[i].width <= levels[i].tiles_x * probe.ts
                  /\ (levels[i].tiles_y - 1) * probe.ts < levels[i].height
                  /\ levels[i].height <= levels[i].tiles_y * probe.ts
                  /\ {key \in DOMAIN probe.written : key[1] = levels[i].level}
                        = {<<levels[i].level, tx, ty>> :
                              tx \in 0 .. levels[i].tiles_x - 1,
                              ty \in 0 .. levels[i].tiles_y - 1}
            /\ levels[n].level = 0
            /\ levels[n].width <= probe.ts
            /\ levels[n].height <= probe.ts

\* a pyramid of three levels of an image of odd width, whose height of one
\* row is kept at one row on the way down
C24_Witness ==
    /\ ManifestMade
    /\ probe.pc = "return"
    /\ Len(probe.result.levels) = 3
    /\ probe.result.levels[1].width % 2 = 1
    /\ probe.result.levels[1].width > 2 * probe.ts
    /\ probe.result.levels[1].height = 1
    /\ probe.result.levels[3].height = 1
    /\ probe.result.levels[3].level = 0

(***************************************************************************)
(* C26: for every image that can be read, one whose largest dimension is   *)
(* smaller than tile_size included, the manifest generate_tiles makes has  *)
(* at least one level and at least one tile.                               *)
(***************************************************************************)
C26_PyramidNeverEmpty ==
    ManifestMade
        => /\ Len(probe.saved.levels) >= 1
           /\ TileKeys(probe.saved.levels) # {}
           /\ DOMAIN probe.written # {}

(***************************************************************************)
(* C27: for every frame i of a stitch plan, y_start_i + height_i is at     *)
(* most the height of the composed image, so the canvas has a row for      *)
(* every row of every frame, also when the frames differ in height.        *)
(***************************************************************************)
C27_CanvasCoversEveryFrame ==
    (StitchReturned /\ probe.result.status = "ok" /\ Len(probe.frame_bytes) > 1)
        => \A i \in 1 .. Len(ProbeImages) :
              probe.result.points[i] + Height(ProbeImages[i])
                 <= Height(load_image(probe.result.out))

(***************************************************************************)
(* C25: of two complete_session calls issued together for one   *)
(* session id, exactly one returns an artifact and the other fails with    *)
(* SessionNotFound; the frames are stitched at most once and the registry  *)
(* is not corrupted.                                                       *)
(***************************************************************************)
\* both calls have returned or raised
BothEnded ==
    /\ probe # NoProbe /\ probe.fn = "complete_session"
    /\ \A c \in 1 .. 2 : probe.calls[c].pc \in {"returned", "raised"}

\* the registry holds the session as it was, or holds it no more
RegistryIntact ==
    probe.session_id \in DOMAIN sessions
        => /\ sessions[probe.session_id].frames = probe.frames
           /\ sessions[probe.session_id].session_id = probe.session_id

C25_ExactlyOneCompletes ==
    (probe # NoProbe /\ probe.fn = "complete_session")
        => /\ RegistryIntact
           /\ probe.stitches <= 1
           /\ BothEnded
                 => \E c \in 1 .. 2 :
                       /\ probe.calls[c].result = "ok"
                       /\ probe.calls[3 - c].result = "SessionNotFound"

\* what does hold of the two calls: at most one returns an artifact, and
\* when one does the other fails with SessionNotFound, the frames have been
\* stitched once and the session is out of the registry
SuccessExcludesOther ==
    (probe # NoProbe /\ probe.fn = "complete_session")
        => /\ RegistryIntact
           /\ ~(probe.calls[1].result = "ok" /\ probe.calls[2].result = "ok")
           /\ \A c \in 1 .. 2 :
                 probe.calls[c].result = "ok"
                    => /\ probe.session_id \notin DOMAIN sessions
                       /\ probe.session_id \in DOMAIN stitched
                       /\ probe.stitches = 1
                       /\ probe.calls[3 - c].pc # "issued"
                             => probe.calls[3 - c].result = "SessionNotFound"

(***************************************************************************)
(* C28: a user who is not Pro is never granted more analyses than          *)
(* monthly_analyses_limit, however the quota check, the AI call and the    *)
(* usage increment of the user's concurrent requests interleave: the       *)
(* analyses counted before plus the requests let through do not exceed the *)
(* limit, nor does the counter.                                            *)
(***************************************************************************)
\* the requests the quota check has let through
LetThrough ==
    {r \in 1 .. MaxAnalyses :
        probe.requests[r].pc \notin {"issued", "rejected"}}

\* the requests that have got their analysis
Returned == {r \in 1 .. MaxAnalyses : probe.requests[r].pc = "returned"}

WrongSignatureRejected ==
    (probe.fn = "polar_webhook" /\ probe.secret # NoSecret
        /\ probe.delivery.status # 0
        /\ probe.delivery.signature # NoSignature
        /\ probe.delivery.signature
              # hmac_sha256(probe.secret, probe.delivery.body))
        => /\ ~probe.delivery.changed
           /\ probe.delivery.status = 401

C30_UnsignedEventChangesNothing ==
    (probe.fn = "polar_webhook" /\ probe.secret # NoSecret
        /\ probe.delivery.status # 0
        /\ probe.delivery.signature
              # hmac_sha256(probe.secret, probe.delivery.body))
        => /\ ~probe.delivery.changed
           /\ probe.delivery.status \in {400, 401}

====
